---- MODULE Spec2Model ----
(***************************************************************************)
(* whl_can.py: a KeyboardController whose listener thread turns key events *)
(* into (speed, steering_angle) and fills a ControlCommand message, and a  *)
(* main thread that publishes that message every 0.1 s.                    *)
(*                                                                         *)
(* Threads are interleaved one statement at a time.  speed is a Python     *)
(* float: it is modelled as an IEEE-754 double, written as a sign and a    *)
(* magnitude counted in units of 2^-56 (every double reachable from 0 by   *)
(* adding and subtracting 0.1 below 4.0 is a multiple of 2^-56); the       *)
(* magnitude is hi * 2^28 + lo so that both limbs fit TLC's integers.      *)
(***************************************************************************)
EXTENDS Integers, Sequences, FiniteSets, TLC

\* Key events the listener may consume in one run.
MaxEvents == 4

----------------------------------------------------------------------------
(* IEEE-754 double arithmetic, round to nearest, ties to even *)

Limb == 2^28

\* Bits of the significand beyond 53 when the magnitude is hi * 2^28 + lo.
ExtraBits(hi) ==
  CHOOSE k \in 0..5 : hi < 2^(25 + k) /\ (k = 0 \/ hi >= 2^(24 + k))

\* The double nearest to the exact magnitude (hi, lo).
FRound(hi, lo) ==
  LET p    == 2^ExtraBits(hi)
      q    == lo \div p
      r    == lo % p
      up   == p > 1 /\ (2 * r > p \/ (2 * r = p /\ q % 2 = 1))
      lo2  == (IF up THEN q + 1 ELSE q) * p
  IN  IF lo2 = Limb THEN [hi |-> hi + 1, lo |-> 0] ELSE [hi |-> hi, lo |-> lo2]

MagLess(a, b) == a.hi < b.hi \/ (a.hi = b.hi /\ a.lo < b.lo)

MagAdd(a, b) ==
  LET lo == a.lo + b.lo
  IN  FRound(a.hi + b.hi + (lo \div Limb), lo % Limb)

\* a - b for magnitudes with b <= a.
MagSub(a, b) ==
  IF a.lo >= b.lo THEN FRound(a.hi - b.hi, a.lo - b.lo)
  ELSE FRound(a.hi - b.hi - 1, a.lo + Limb - b.lo)

Float(neg, m) == [neg |-> neg /\ (m.hi # 0 \/ m.lo # 0), hi |-> m.hi, lo |-> m.lo]

FZero == [neg |-> FALSE, hi |-> 0, lo |-> 0]

FNeg(x) == Float(~x.neg, x)

\* x + y as Python computes it on floats.
FAdd(x, y) ==
  IF x.neg = y.neg THEN Float(x.neg, MagAdd(x, y))
  ELSE IF MagLess(x, y) THEN Float(y.neg, MagSub(y, x))
  ELSE Float(x.neg, MagSub(x, y))

FSub(x, y) == FAdd(x, FNeg(y))

----------------------------------------------------------------------------
(* module constants *)

\* 0.1 as a double: 0x1999999999999A * 2^-56
SPEED_DELTA == [neg |-> FALSE, hi |-> 26843545, lo |-> 161061274]

STEERING_ANGLE_DELTA == 1

\* keyboard.KEY_DOWN / keyboard.KEY_UP
KEY_DOWN == "down"
KEY_UP == "up"

\* Key names the keyboard can report: the mapped ones, escape, and one other.
KeyNames == {"w", "s", "a", "d", "esc", "x"}

Events == [event_type : {KEY_DOWN, KEY_UP}, name : KeyNames]

NoEvent == [event_type |-> "none", name |-> "none"]

\* self.control_map: the keys that have a handler
control_map == {"w", "s", "a", "d"}

----------------------------------------------------------------------------
VARIABLES
  running,          \* self.running
  speed,            \* self.speed
  steering_angle,   \* self.steering_angle
  control_cmd_msg,  \* the fields of the one ControlCommand object
  lock,             \* self.lock: "free", or the thread holding it
  lpc,              \* the listener thread's position
  event,            \* the listener's local variable event
  mpc,              \* the main thread's position
  cmd,              \* the main thread's cmd: a reference, or "null"
  wspeed,           \* writer.write: <<the speed field already serialized>>
  nEvents,          \* key events consumed so far
  keys,             \* history: mapped key-down events consumed, in order
  escRead,          \* history: a key-down of escape has been consumed
  history,          \* history: every (speed, steering_angle) pair held, in order
  stopReturned,     \* history: the main thread's stop() has returned
  readsAfterStop,   \* history: events consumed after that
  falseWrites,      \* history: how many times False was written to running
  passive,          \* history: the event being handled is no press of w, s, a, d or esc
  pubIdx,           \* history: the entry of history the last published pair stands for
  lateWrites        \* history: calls of writer.write made with running false (up to 2)

vars == <<running, speed, steering_angle, control_cmd_msg, lock, lpc, event,
          mpc, cmd, wspeed, nEvents, keys, escRead, history,
          stopReturned, readsAfterStop, falseWrites, passive, pubIdx, lateWrites>>

shared == <<running, speed, steering_angle, control_cmd_msg>>
listenerLocals == <<lpc, event>>
mainLocals == <<mpc, cmd, wspeed>>
ghosts == <<nEvents, keys, escRead, history, stopReturned, readsAfterStop,
            falseWrites, passive, pubIdx, lateWrites>>

Pair(sp, an) == [speed |-> sp, steering_angle |-> an]

\* The object a reference denotes: there is one ControlCommand, made in __init__.
Deref(ref) == CASE ref = "control_cmd_msg" -> control_cmd_msg

Init ==
  /\ running = TRUE
  /\ speed = FZero
  /\ steering_angle = 0
  /\ control_cmd_msg = Pair(FZero, 0)
  /\ lock = "free"
  /\ lpc = "check"
  /\ event = NoEvent
  /\ mpc = "loop"
  /\ cmd = "null"
  /\ wspeed = <<>>
  /\ nEvents = 0
  /\ keys = <<>>
  /\ escRead = FALSE
  /\ history = <<Pair(FZero, 0)>>
  /\ stopReturned = FALSE
  /\ readsAfterStop = 0
  /\ falseWrites = 0
  /\ passive = FALSE
  /\ pubIdx = 1
  /\ lateWrites = 0

----------------------------------------------------------------------------
(* threading.Lock *)

Acquire(t) == lock = "free" /\ lock' = t

Release(t) == lock = t /\ lock' = "free"

----------------------------------------------------------------------------
(* the key handlers, as functions of the (speed, steering_angle) pair *)

move_forward(st) == [st EXCEPT !.speed = FAdd(@, SPEED_DELTA)]

\* A handler that adds where it should subtract.
move_backward_adds(st) == [st EXCEPT !.speed = FAdd(@, SPEED_DELTA)]

move_backward(st) == [st EXCEPT !.speed = FSub(@, SPEED_DELTA)]

turn_left(st) == [st EXCEPT !.steering_angle = @ + STEERING_ANGLE_DELTA]

turn_right(st) == [st EXCEPT !.steering_angle = @ - STEERING_ANGLE_DELTA]

\* A control_map whose "s" entry is turn_left.
Handle_s_turns(name, st) ==
  CASE name = "w" -> move_forward(st)
    [] name = "s" -> turn_left(st)
    [] name = "a" -> turn_left(st)
    [] name = "d" -> turn_right(st)

\* self.control_map[name]()
Handle(name, st) ==
  CASE name = "w" -> move_forward(st)
    [] name = "s" -> move_backward(st)
    [] name = "a" -> turn_left(st)
    [] name = "d" -> turn_right(st)

----------------------------------------------------------------------------
(* the listener thread: KeyboardController._listen_keyboard *)
(* A with block's last statement and the release that ends the block are   *)
(* one step, and so are a statement that touches only the thread's own     *)
(* variables and the statement after it.                                    *)

\* A loop that never looks at the run flag.
L_Check_always ==
  /\ lpc = "check"
  /\ lpc' = "read"
  /\ UNCHANGED <<shared, lock, event, mainLocals, ghosts>>

\* while self.running:
L_Check ==
  /\ lpc = "check"
  /\ lpc' = IF running THEN "read" ELSE "done"
  /\ UNCHANGED <<shared, lock, event, mainLocals, ghosts>>

\* A dispatch that looks for the key name "escape", which is never reported.
Branch_escape_unnamed(e) ==
  IF e.event_type = KEY_DOWN /\ e.name \in control_map THEN "h_lock" ELSE "fill_lock"

\* A dispatch that forgets to look at event_type.
Branch_ignores_type(e) ==
  IF e.name = "esc" THEN "stop_lock"
  ELSE IF e.name \in control_map THEN "h_lock"
  ELSE "fill_lock"

\* The branch the if/elif of lines 73-77 takes for an event.
Branch(e) ==
  IF e.event_type = KEY_DOWN
  THEN IF e.name = "esc" THEN "stop_lock"
       ELSE IF e.name \in control_map THEN "h_lock"
       ELSE "fill_lock"
  ELSE "fill_lock"

\* event = keyboard.read_event() returns the next key event, and the if/elif
\* picks the branch for it
L_ReadEvent ==
  /\ lpc = "read"
  /\ nEvents < MaxEvents
  /\ \E e \in Events :
       /\ lpc' = Branch(e)
       /\ event' = IF Branch(e) = "fill_lock" THEN NoEvent ELSE e
       /\ keys' = IF e.event_type = KEY_DOWN /\ e.name \in control_map
                  THEN Append(keys, e.name) ELSE keys
       /\ escRead' = (escRead \/ (e.event_type = KEY_DOWN /\ e.name = "esc"))
       /\ passive' = (e.event_type # KEY_DOWN \/ e.name \notin control_map \cup {"esc"})
  /\ nEvents' = nEvents + 1
  /\ readsAfterStop' = IF stopReturned THEN readsAfterStop + 1 ELSE readsAfterStop
  /\ UNCHANGED <<shared, lock, mainLocals, history, stopReturned, falseWrites,
                 pubIdx, lateWrites>>

\* keyboard.read_event() raises: the exception ends the thread
L_ReadFail ==
  /\ lpc = "read"
  /\ lpc' = "failed"
  /\ UNCHANGED <<shared, lock, event, mainLocals, ghosts>>

\* with self.lock:
L_HandlerAcquire ==
  /\ lpc = "h_lock"
  /\ Acquire("listener")
  /\ lpc' = "h_apply"
  /\ UNCHANGED <<shared, event, mainLocals, ghosts>>

\* A handler call after which fill_control_cmd is skipped.
L_HandlerApply_skips_fill ==
  /\ lpc = "h_apply"
  /\ LET st == Handle(event.name, Pair(speed, steering_angle))
     IN  /\ speed' = st.speed
         /\ steering_angle' = st.steering_angle
         /\ history' = Append(history, st)
  /\ Release("listener")
  /\ lpc' = "check"
  /\ event' = NoEvent
  /\ UNCHANGED <<running, control_cmd_msg, mainLocals, nEvents, keys,
                 escRead, stopReturned, readsAfterStop, falseWrites, passive, pubIdx, lateWrites>>

\* A handler call that goes on to fill_control_cmd inside the with block.
L_HandlerApply_keeps_lock ==
  /\ lpc = "h_apply"
  /\ LET st == Handle(event.name, Pair(speed, steering_angle))
     IN  /\ speed' = st.speed
         /\ steering_angle' = st.steering_angle
         /\ history' = Append(history, st)
  /\ lpc' = "fill_lock"
  /\ event' = NoEvent
  /\ UNCHANGED <<running, control_cmd_msg, lock, mainLocals, nEvents, keys,
                 escRead, stopReturned, readsAfterStop, falseWrites, passive, pubIdx, lateWrites>>

\* self.control_map[event.name](), leaving the with block
L_HandlerApply ==
  /\ lpc = "h_apply"
  /\ LET st == Handle(event.name, Pair(speed, steering_angle))
     IN  /\ speed' = st.speed
         /\ steering_angle' = st.steering_angle
         /\ history' = Append(history, st)
  /\ Release("listener")
  /\ lpc' = "fill_lock"
  /\ event' = NoEvent
  /\ UNCHANGED <<running, control_cmd_msg, mainLocals, nEvents, keys,
                 escRead, stopReturned, readsAfterStop, falseWrites, passive, pubIdx, lateWrites>>

\* fill_control_cmd: with self.lock:
L_FillAcquire ==
  /\ lpc = "fill_lock"
  /\ Acquire("listener")
  /\ lpc' = "fill_speed"
  /\ UNCHANGED <<shared, event, mainLocals, ghosts>>

\* self.control_cmd_msg.speed = self.speed
L_FillSpeed ==
  /\ lpc = "fill_speed"
  /\ control_cmd_msg' = [control_cmd_msg EXCEPT !.speed = speed]
  /\ lpc' = "fill_angle"
  /\ UNCHANGED <<running, speed, steering_angle, lock, event, mainLocals, ghosts>>

\* fill_control_cmd returning with the lock still held.
L_FillAngle_keeps_lock ==
  /\ lpc = "fill_angle"
  /\ control_cmd_msg' = [control_cmd_msg EXCEPT !.steering_angle = steering_angle]
  /\ lpc' = "check"
  /\ UNCHANGED <<running, speed, steering_angle, lock, event, mainLocals, ghosts>>

\* self.control_cmd_msg.steering_angle = self.steering_angle, leaving the
\* with block
L_FillAngle ==
  /\ lpc = "fill_angle"
  /\ control_cmd_msg' = [control_cmd_msg EXCEPT !.steering_angle = steering_angle]
  /\ Release("listener")
  /\ lpc' = "check"
  /\ passive' = FALSE
  /\ UNCHANGED <<running, speed, steering_angle, event, mainLocals, nEvents,
                 keys, escRead, history, stopReturned, readsAfterStop,
                 falseWrites, pubIdx, lateWrites>>

\* self.stop() on escape: with self.lock:
L_StopAcquire ==
  /\ lpc = "stop_lock"
  /\ Acquire("listener")
  /\ lpc' = "stop_set"
  /\ UNCHANGED <<shared, event, mainLocals, ghosts>>

\* self.running = False, leaving the with block; then break
L_StopSet ==
  /\ lpc = "stop_set"
  /\ running' = FALSE
  /\ falseWrites' = falseWrites + 1
  /\ Release("listener")
  /\ lpc' = "done"
  /\ UNCHANGED <<speed, steering_angle, control_cmd_msg, event, mainLocals,
                 nEvents, keys, escRead, history, stopReturned, readsAfterStop,
                 passive, pubIdx, lateWrites>>

\* The listener's own steps: everything but the arrival of a key event.
ListenerStep ==
  \/ L_Check
  \/ L_HandlerAcquire
  \/ L_HandlerApply
  \/ L_FillAcquire
  \/ L_FillSpeed
  \/ L_FillAngle
  \/ L_StopAcquire
  \/ L_StopSet

----------------------------------------------------------------------------
(* the main thread: the publish loop of __main__ *)

\* A publish loop that never looks at the run flag.
M_Loop_forever ==
  /\ mpc = "loop"
  /\ mpc' = "get_lock"
  /\ UNCHANGED <<shared, lock, listenerLocals, cmd, wspeed, ghosts>>

\* while controller.running: time.sleep(0.1)
M_Loop ==
  /\ mpc = "loop"
  /\ mpc' = IF running THEN "get_lock" ELSE "exit"
  /\ UNCHANGED <<shared, lock, listenerLocals, cmd, wspeed, ghosts>>

\* get_control_cmd: with self.lock:
M_GetAcquire ==
  /\ mpc = "get_lock"
  /\ Acquire("main")
  /\ mpc' = "get_ret"
  /\ UNCHANGED <<shared, listenerLocals, cmd, wspeed, ghosts>>

\* What get_control_cmd returns: the message object itself.
get_control_cmd == "control_cmd_msg"

\* return self.control_cmd_msg, leaving the with block
M_GetReturn ==
  /\ mpc = "get_ret"
  /\ cmd' = get_control_cmd
  /\ Release("main")
  /\ mpc' = "write_speed"
  /\ UNCHANGED <<shared, listenerLocals, wspeed, ghosts>>

\* writer.write(cmd) serializes the message field by field, outside the lock
M_WriteSpeed ==
  /\ mpc = "write_speed"
  /\ wspeed' = <<Deref(cmd).speed>>
  /\ mpc' = "write_angle"
  /\ lateWrites' = IF running \/ lateWrites = 2 THEN lateWrites ELSE lateWrites + 1
  /\ UNCHANGED <<shared, lock, listenerLocals, cmd, nEvents, keys, escRead,
                 history, stopReturned, readsAfterStop, falseWrites, passive,
                 pubIdx>>

\* The message writer.write hands to the bus once steering_angle is
\* serialized too.
Written == Pair(wspeed[1], Deref(cmd).steering_angle)

\* The entries of history, no earlier than the last published one, that the
\* pair being published can stand for.
LaterEntries == {i \in DOMAIN history : i >= pubIdx /\ history[i] = Written}

\* The earliest of a nonempty set of entries.
Earliest(S) == CHOOSE i \in S : \A j \in S : i <= j

\* A publish loop that starts its next iteration without reading running.
M_WriteAngle_again ==
  /\ mpc = "write_angle"
  /\ wspeed' = <<>>
  /\ mpc' = "get_lock"
  /\ pubIdx' = IF LaterEntries = {} THEN pubIdx ELSE Earliest(LaterEntries)
  /\ UNCHANGED <<shared, lock, listenerLocals, cmd, nEvents, keys, escRead,
                 history, stopReturned, readsAfterStop, falseWrites, passive,
                 lateWrites>>

M_WriteAngle ==
  /\ mpc = "write_angle"
  /\ wspeed' = <<>>
  /\ mpc' = "loop"
  /\ pubIdx' = IF LaterEntries = {} THEN pubIdx ELSE Earliest(LaterEntries)
  /\ UNCHANGED <<shared, lock, listenerLocals, cmd, nEvents, keys, escRead,
                 history, stopReturned, readsAfterStop, falseWrites, passive,
                 lateWrites>>

\* Where the main thread is inside the try block.
InTry == mpc \in {"loop", "get_lock", "get_ret", "write_speed", "write_angle"}

\* KeyboardInterrupt raised in the try block: the with block releases the
\* lock on the way out, and the except clause calls controller.stop()
M_KeyboardInterrupt ==
  /\ InTry
  /\ lock' = IF lock = "main" THEN "free" ELSE lock
  /\ wspeed' = <<>>
  /\ mpc' = "stop_lock"
  /\ UNCHANGED <<shared, listenerLocals, cmd, ghosts>>

\* controller.stop(): with self.lock:
M_StopAcquire ==
  /\ mpc = "stop_lock"
  /\ Acquire("main")
  /\ mpc' = "stop_set"
  /\ UNCHANGED <<shared, listenerLocals, cmd, wspeed, ghosts>>

\* A stop() that flips the flag instead of clearing it.
M_StopSet_toggles ==
  /\ mpc = "stop_set"
  /\ running' = ~running
  /\ falseWrites' = IF running THEN falseWrites + 1 ELSE falseWrites
  /\ Release("main")
  /\ mpc' = "exit"
  /\ stopReturned' = TRUE
  /\ UNCHANGED <<speed, steering_angle, control_cmd_msg, listenerLocals, cmd,
                 wspeed, nEvents, keys, escRead, history, readsAfterStop,
                 passive, pubIdx, lateWrites>>

\* self.running = False, leaving the with block; stop() returns
M_StopSet ==
  /\ mpc = "stop_set"
  /\ running' = FALSE
  /\ falseWrites' = falseWrites + 1
  /\ Release("main")
  /\ mpc' = "exit"
  /\ stopReturned' = TRUE
  /\ UNCHANGED <<speed, steering_angle, control_cmd_msg, listenerLocals, cmd,
                 wspeed, nEvents, keys, escRead, history, readsAfterStop,
                 passive, pubIdx, lateWrites>>

\* The script ends: the process exits and takes the daemon thread with it.
M_Exit ==
  /\ mpc = "exit"
  /\ mpc' = "done"
  /\ lpc' = IF lpc \in {"done", "failed"} THEN lpc ELSE "killed"
  /\ UNCHANGED <<shared, lock, event, cmd, wspeed, ghosts>>

\* The main thread's own steps: everything but the arrival of Ctrl-C.
MainStep ==
  \/ M_Loop
  \/ M_GetAcquire
  \/ M_GetReturn
  \/ M_WriteSpeed
  \/ M_WriteAngle
  \/ M_StopAcquire
  \/ M_StopSet
  \/ M_Exit

----------------------------------------------------------------------------
Next ==
  \/ ListenerStep
  \/ L_ReadEvent
  \/ L_ReadFail
  \/ MainStep
  \/ M_KeyboardInterrupt

Spec == Init /\ [][Next]_vars

\* Both threads are scheduled: a thread that can take a step of its own
\* eventually does.  Key events and Ctrl-C arrive or not as the user pleases.
FairSpec == Spec /\ WF_vars(ListenerStep) /\ WF_vars(MainStep)

----------------------------------------------------------------------------
(* what the claims speak of *)

\* n * x for an integer n, as Python computes int * float.
FMul(n, x) ==
  LET k  == IF n < 0 THEN -n ELSE n
      lo == k * x.lo
  IN  Float(x.neg # (n < 0), FRound(k * x.hi + (lo \div Limb), lo % Limb))

\* |x| <= |y|
FAbsLeq(x, y) == ~MagLess(y, x)

\* Every (speed, steering_angle) pair the controller has held.
HeldPairs == {history[i] : i \in DOMAIN history}

\* How many times key k was pressed.
Count(k) == Cardinality({i \in DOMAIN keys : keys[i] = k})

\* The listener has finished with every event it consumed.
ListenerIdle == lpc \in {"check", "read", "done", "failed"}

\* The listener has consumed a key-down of escape and is through with stop().
EscHandled == escRead /\ lpc \notin {"stop_lock", "stop_set", "killed"}

\* The left-to-right double sum of the speed deltas of the presses in ks.
RECURSIVE SumSpeed(_)
SumSpeed(ks) ==
  IF ks = <<>> THEN FZero
  ELSE LET before == SumSpeed(SubSeq(ks, 1, Len(ks) - 1))
           k      == ks[Len(ks)]
       IN  IF k = "w" THEN FAdd(before, SPEED_DELTA)
           ELSE IF k = "s" THEN FAdd(before, FNeg(SPEED_DELTA))
           ELSE before

\* (#a - #d) x STEERING_ANGLE_DELTA
SumAngle == (Count("a") - Count("d")) * STEERING_ANGLE_DELTA

\* (#w - #s) x SPEED_DELTA, as one double multiplication
SpeedProduct == FMul(Count("w") - Count("s"), SPEED_DELTA)

\* One rounding of at most 2^-54 for each press of w or s.
SpeedTolerance == [neg |-> FALSE, hi |-> 0, lo |-> 4 * (Count("w") + Count("s"))]

----------------------------------------------------------------------------
\* C1: every (speed, steering_angle) pair the main thread publishes is a pair
\* the controller's speed and steering_angle held together at one instant.
C1_PublishedNeverTorn ==
  [][(mpc = "write_angle" /\ mpc' = "loop") => Written \in HeldPairs]_vars

\* C2: once the listener has handled a key-down of escape, running is false
\* and stays false, no further event is consumed, and speed, steering_angle
\* and the message fields never change again; escape as the first event
\* leaves (0, 0).
C2_EscapeIsFinal ==
  /\ [](EscHandled => ~running)
  /\ [](EscHandled /\ nEvents = 1 => speed = FZero /\ steering_angle = 0)
  /\ [][EscHandled => /\ ~running'
                      /\ nEvents' = nEvents
                      /\ UNCHANGED <<speed, steering_angle, control_cmd_msg>>]_vars

\* C2 happens: escape handled after some presses, with key events still to come.
C2_Witness ==
  /\ EscHandled
  /\ lpc = "done"
  /\ keys # <<>>
  /\ nEvents < MaxEvents
  /\ mpc # "done"

\* C3 as stated: when the listener is idle and no escape was consumed, speed
\* is (#w - #s) x SPEED_DELTA and steering_angle is (#a - #d) x
\* STEERING_ANGLE_DELTA.
C3_ExactProduct ==
  (ListenerIdle /\ ~escRead) =>
    /\ speed = SpeedProduct
    /\ steering_angle = SumAngle

\* C3 amended: when the listener is idle and no escape was consumed, speed is
\* the left-to-right double sum of the per-key deltas, which is within one
\* rounding (2^-54) per press of (#w - #s) x SPEED_DELTA, and steering_angle
\* is exactly (#a - #d) x STEERING_ANGLE_DELTA.
C3_SumOfDeltas ==
  (ListenerIdle /\ ~escRead) =>
    /\ speed = SumSpeed(keys)
    /\ FAbsLeq(FSub(speed, SpeedProduct), SpeedTolerance)
    /\ steering_angle = SumAngle

\* C3 happens: w, w, a, s gives speed 0.1 and steering_angle 1.
C3_Witness ==
  /\ ListenerIdle
  /\ keys = <<"w", "w", "a", "s">>
  /\ speed = SPEED_DELTA
  /\ steering_angle = 1

\* C4: while get_control_cmd holds the lock, the message it is about to
\* return carries the controller's current speed and steering_angle.
C4_SnapshotIsCurrent ==
  mpc = "get_ret" => Deref(get_control_cmd) = Pair(speed, steering_angle)

\* C5: the value get_control_cmd returned keeps its speed and steering_angle
\* whatever the listener does afterwards.
C5_SnapshotIsCopy ==
  [][(cmd # "null" /\ cmd' = cmd) => Deref(cmd)' = Deref(cmd)]_vars

\* C6: a thread that is about to read or write speed, steering_angle or a
\* field of the control message holds the lock.
C6_LockDiscipline ==
  /\ lpc \in {"h_apply", "fill_speed", "fill_angle"} => lock = "listener"
  /\ mpc \in {"write_speed", "write_angle"} => lock = "main"

\* C7: once read_event has raised in the listener, the process eventually
\* exits: the publish loop does not run for ever.
C7_ListenerFailureEndsProcess == (lpc = "failed") ~> (mpc = "done")

\* C8: once running is false, the main thread eventually leaves its loop and
\* the process exits.
C8_StopEndsProcess == (~running) ~> (mpc = "done")

\* C8 happens: escape cleared the flag while the main thread was in its loop.
C8_Witness == ~running /\ escRead /\ mpc = "write_speed"

C10_StopLagsOneRead ==
  /\ readsAfterStop <= 1
  /\ (stopReturned /\ lpc = "check") => ~running

\* C10 happens: the listener handled one more press after stop() returned,
\* then left its loop.
C10_Witness ==
  /\ stopReturned
  /\ readsAfterStop = 1
  /\ Len(history) > 1
  /\ lpc = "done"
  /\ ~escRead

\* C11 as stated: running starts true, False is written to it at most once
\* in an execution, and once false it is never true again.
C11_FalseWrittenOnce ==
  /\ [](falseWrites <= 1)
  /\ [][~running => ~running']_vars

\* C11 amended: running starts true, and once false it is never true again;
\* False is written to it at least once before it is false and at most twice
\* in an execution, once by the listener on escape and once by the main
\* thread's stop().
C11_NeverTrueAgain ==
  /\ [](running <=> falseWrites = 0)
  /\ [](falseWrites <= 2)
  /\ [](falseWrites = 2 => escRead /\ stopReturned)
  /\ [][~running => ~running']_vars

\* C11 happens: escape and Ctrl-C in one run, each writing False.
C11_Witness == falseWrites = 2 /\ ~running /\ lpc = "done" /\ mpc = "exit"

\* A step of the listener thread itself.
ListenerMoves == lpc' # lpc /\ lpc' # "killed"

\* C12: consuming and handling a key-up of any key, or a key-down of a key
\* other than w, s, a, d and esc, leaves speed, steering_angle and running
\* as they are.
C12_PassiveEventsChangeNothing ==
  [][((lpc = "read" /\ passive') \/ (passive /\ ListenerMoves))
       => UNCHANGED <<speed, steering_angle, running>>]_vars

\* C12 happens: such an event is being handled after some presses.
C12_Witness == passive /\ lpc = "fill_angle" /\ keys # <<>> /\ running

\* The message carries the controller's speed and steering_angle.
Fresh == control_cmd_msg = Pair(speed, steering_angle)

\* C13: whenever the listener is at the top of its loop or has left it on
\* escape the message carries the current speed and steering_angle; while the
\* process runs they differ only between a handler and the end of
\* fill_control_cmd.
C13_MessageFreshWhenIdle ==
  /\ (lpc \in {"check", "read"} \/ (lpc = "done" /\ escRead)) => Fresh
  /\ (mpc # "done" /\ ~Fresh) => lpc \in {"fill_lock", "fill_speed", "fill_angle"}

\* C13 happens: the listener is back at read_event after presses of both
\* kinds, and the message carries them.
C13_Witness ==
  /\ lpc = "read"
  /\ speed # FZero
  /\ steering_angle # 0
  /\ Fresh

\* C14: the handler step for w adds SPEED_DELTA to speed, the one for s
\* subtracts it, both leaving steering_angle; the one for a adds
\* STEERING_ANGLE_DELTA to steering_angle, the one for d subtracts it, both
\* leaving speed; none changes running.
C14_HandlerChangesOwnField ==
  [][(lpc = "h_apply" /\ ListenerMoves) =>
       /\ running' = running
       /\ event.name \in {"w", "s"} =>
            /\ steering_angle' = steering_angle
            /\ speed' = FAdd(speed, IF event.name = "w" THEN SPEED_DELTA
                                    ELSE FNeg(SPEED_DELTA))
       /\ event.name \in {"a", "d"} =>
            /\ speed' = speed
            /\ steering_angle' = steering_angle +
                 (IF event.name = "a" THEN STEERING_ANGLE_DELTA
                  ELSE -STEERING_ANGLE_DELTA)]_vars

\* C14 happens: each of the four handlers has run once.
C14_Witness ==
  /\ lpc = "fill_lock"
  /\ Len(history) = 5
  /\ \A k \in control_map : Count(k) = 1

\* Where each thread is about to acquire the lock.
ListenerAcquiring == lpc \in {"h_lock", "fill_lock", "stop_lock"}
MainAcquiring == mpc \in {"get_lock", "stop_lock"}

\* C15: no thread tries to acquire the lock while it holds it, and the two
\* threads are never both waiting for a lock that is held.
C15_NoSelfDeadlock ==
  /\ ListenerAcquiring => lock # "listener"
  /\ MainAcquiring => lock # "main"
  /\ (ListenerAcquiring /\ MainAcquiring) => lock = "free"

\* C15 happens: fill_control_cmd waits for the lock get_control_cmd holds,
\* right after a handler ran.
C15_Witness == lpc = "fill_lock" /\ lock = "main" /\ ~Fresh

\* C16: every published pair is an entry of history no earlier than the entry
\* the previous published pair stands for, so the published pairs are an
\* order-preserving selection from history.
C16_PublishedInOrder ==
  [][(mpc = "write_angle" /\ mpc' # mpc) => LaterEntries # {}]_vars

\* C17: once running is false the main loop calls writer.write at most once
\* more.
C17_OneLateWrite == lateWrites <= 1

\* C17 happens: escape stopped the controller while the main thread was in
\* its iteration, and the main thread published once more and left the loop.
C17_Witness ==
  /\ lateWrites = 1
  /\ escRead
  /\ mpc \in {"exit", "done"}

====
